---- MODULE Spec2Model ----
(***************************************************************************)
(* Model of the ModelMint chat screen (src/src/ModelMint3DGenerator.jsx).  *)
(*                                                                         *)
(* The component's useState cells are the variables prompt, messages,      *)
(* loading, typing, previewUrl and showPreview.  Event handlers are        *)
(* closures created by a render: they read the values of the render that   *)
(* created them (the variable rendered), while the setters they call       *)
(* update the state cells.  Render commits the state cells to a new        *)
(* rendering and runs the effect of lines 29-41.                           *)
(*                                                                         *)
(* A text is a sequence of fragments; a fragment is either one whitespace  *)
(* character or a string that neither starts nor ends with whitespace.     *)
(* A JS object is a record; a missing key is a missing field.  Timestamps  *)
(* (ts: Date.now()) are not modelled.                                      *)
(***************************************************************************)
EXTENDS Integers, Sequences, FiniteSets, TLC

VARIABLES
  prompt,        \* useState("")     line 20
  messages,      \* useState([])     line 21
  loading,       \* useState(false)  line 22
  typing,        \* useState(false)  line 23
  previewUrl,    \* useState(null)   line 24
  showPreview,   \* useState(false)  line 25
  rendered,      \* the values the current rendering (and its handlers) closed over
  inflight,      \* sendMessage calls suspended at an await: the request and its response
  nextId,        \* number of fetch calls issued so far
  timers,        \* pending setTimeout(() => setTyping(false), 250) callbacks
  scripts,       \* <script> elements appended to document.head, with load status
  viewerDefined, \* window.customElements.get("model-viewer") is defined
  lastDownload,  \* the anchor most recently clicked by downloadFile
  previewHist    \* history: the target last closed and the target opened since

vars == <<prompt, messages, loading, typing, previewUrl, showPreview, rendered,
          inflight, nextId, timers, scripts,
          viewerDefined, lastDownload, previewHist>>

chatState == <<prompt, messages, loading, typing>>
previewState == <<previewUrl, showPreview>>

-----------------------------------------------------------------------------
(* Bounds *)

MaxRequests == 2        \* fetch calls issued in one session
MaxScripts == 2         \* script elements appended in one session

-----------------------------------------------------------------------------
(* Values *)

Undefined == "undefined"
Null == "null"
None == "none"

WhiteSpace == {" ", "\n", "\t"}

U1 == "https://x/y.stl"
U2 == "https://x/z.stl"
Img == "https://x/y.png"

\* values the textarea can deliver through onChange (e.target.value)
Prompts ==
  { <<" ", "\n">>,
    <<" ", "A round keychain, 30mm diameter, hole at top, text 'PR' engraved", "\n">> }

\* the quick-prompt buttons (the first of the three)
QuickPrompts ==
  { <<"A round keychain, 30mm diameter, hole at top, text 'PR' engraved">> }

Keys == {"Enter", "a"}

\* JSON bodies of successful replies: { text, image?, stlUrl? }
Replies ==
  { [text |-> <<"done">>, stlUrl |-> U1],
    [image |-> Img, stlUrl |-> U2] }

\* the response of a fetch("/chat") promise that has not settled
NoResponse == [pending |-> TRUE]

\* the errors a rejected fetch("/chat") promise can carry
NetworkErrors == { [message |-> <<"Failed to fetch">>] }

\* the responses a fetch("/chat") promise can resolve with; the body is read later and
\* either yields text (res.text()), parsed JSON (res.json()) or fails with an error
OkResponses == { [ok |-> TRUE, status |-> 200, json |-> d] : d \in Replies }

FailedResponses ==
  { [ok |-> FALSE, status |-> 500, text |-> <<"boom">>],
    [ok |-> FALSE, status |-> 502, readError |-> <<"body stream error">>],
    [ok |-> TRUE, status |-> 200,
     parseError |-> <<"Unexpected token < in JSON at position 0">>] }

Responses == OkResponses \cup FailedResponses

\* the responses of a chat session: every failure, and one reply
ChatResponses ==
  FailedResponses \cup { [ok |-> TRUE, status |-> 200, json |-> [text |-> <<"done">>, stlUrl |-> U1]] }

-----------------------------------------------------------------------------
(* Pure helpers *)

Has(o, f) == f \in DOMAIN o

\* property read o.f of a JS object: undefined when the key is missing
Field(o, f) == IF Has(o, f) THEN o[f] ELSE Undefined

\* JS truthiness of a string-or-undefined-or-null value
Truthy(v) == v \notin {Undefined, Null, ""}

RECURSIVE TrimStart(_)
TrimStart(s) ==
  IF s # <<>> /\ Head(s) \in WhiteSpace THEN TrimStart(Tail(s)) ELSE s

RECURSIVE TrimEnd(_)
TrimEnd(s) ==
  IF s # <<>> /\ s[Len(s)] \in WhiteSpace
    THEN TrimEnd(SubSeq(s, 1, Len(s) - 1))
    ELSE s

\* String.prototype.trim
Trim(s) == TrimEnd(TrimStart(s))

Digit(n) == <<"0", "1", "2", "3", "4", "5", "6", "7", "8", "9">>[n + 1]

\* template-literal formatting of a non-negative integer
RECURSIVE Dec(_)
Dec(n) == IF n < 10 THEN <<Digit(n)>> ELSE Dec(n \div 10) \o <<Digit(n % 10)>>

\* sub occurs in s as a contiguous run
Contains(s, sub) ==
  \E i \in 0..(Len(s) - Len(sub)) : SubSeq(s, i + 1, i + Len(sub)) = sub

-----------------------------------------------------------------------------
(* sendMessage, lines 55-99 *)

\* line 57: the early return
Rejects(r) == Trim(r.prompt) = <<>> \/ r.loading

\* line 59
UserMsg(trimmed) == [role |-> "user", text |-> trimmed]

\* lines 66-70: the request issued
Request(id, trimmed) == [id |-> id, method |-> "POST", url |-> "/chat",
                         body |-> [message |-> trimmed], res |-> NoResponse]

\* line 74 with a bug: the body text is left out of the error
ServerErrorWithoutBody(status, text) == <<"Server error: ">> \o Dec(status)

\* line 74
ServerError(status, text) == <<"Server error: ">> \o Dec(status) \o <<" - ">> \o text

\* lines 80-86 with a bug: the image of the reply is dropped
BotMsgWithoutImage(data) ==
  [role |-> "bot",
   text |-> IF Has(data, "text") /\ data.text # <<>> THEN data.text ELSE <<>>,
   image |-> Undefined,
   stlUrl |-> Field(data, "stlUrl")]

\* lines 80-86
BotMsg(data) ==
  [role |-> "bot",
   text |-> IF Has(data, "text") /\ data.text # <<>> THEN data.text ELSE <<>>,
   image |-> Field(data, "image"),
   stlUrl |-> Field(data, "stlUrl")]

\* lines 90-93
ErrorMsg(message) == [role |-> "bot", text |-> <<"Error: ">> \o message]

\* lines 72-93: the one message appended once the body of response res is read
Settle(res) ==
  IF ~res.ok
    THEN IF Has(res, "text") THEN ErrorMsg(ServerError(res.status, res.text))
                             ELSE ErrorMsg(res.readError)
  ELSE IF Has(res, "json") THEN BotMsg(res.json)
  ELSE ErrorMsg(res.parseError)

\* an update that puts the new message first: (m) => [msg, ...m]
PrependMsg(m, msg) == <<msg>> \o m

\* setMessages((m) => [...m, msg])
AppendMsg(m, msg) == Append(m, msg)

-----------------------------------------------------------------------------
(* The rendering *)

\* lines 198-214: messages.map((msg, idx) => ...), one bubble per message, keyed by
\* its index and laid out in index order
Bubbles(m) == [i \in 1..Len(m) |-> [key |-> i - 1, role |-> m[i].role, text |-> m[i].text]]

\* lines 224-240: the model files whose STL action buttons a rendering of m shows
StlUrls(m) == { Field(m[i], "stlUrl") : i \in { j \in 1..Len(m) : Truthy(Field(m[j], "stlUrl")) } }

\* what a rendering's handlers and DOM depend on
Snapshot ==
  [prompt |-> prompt, loading |-> loading, stlUrls |-> StlUrls(messages),
   previewUrl |-> previewUrl, showPreview |-> showPreview, viewer |-> viewerDefined]

\* line 356
ModalVisible(r) == r.showPreview /\ Truthy(r.previewUrl)

\* lines 281, 287: disabled={loading}
InputDisabled(r) == r.loading

\* lines 356-430: what a rendering shows of the preview surface
View(r) ==
  [modal |-> ModalVisible(r),
   rawHref |-> IF ModalVisible(r) THEN r.previewUrl ELSE None,
   downloadTarget |-> IF ModalVisible(r) THEN r.previewUrl ELSE None,
   viewerSrc |-> IF ModalVisible(r) /\ r.viewer THEN r.previewUrl ELSE None,
   fallbackHref |-> IF ModalVisible(r) /\ ~r.viewer THEN r.previewUrl ELSE None]

\* no anchor has been clicked yet
NoDownload == [clicked |-> FALSE]

\* lines 113-121
DownloadFile(url) == [href |-> url, download |-> "model.stl"]

-----------------------------------------------------------------------------
Init ==
  /\ prompt = <<>>
  /\ messages = <<>>
  /\ loading = FALSE
  /\ typing = FALSE
  /\ previewUrl = Null
  /\ showPreview = FALSE
  /\ viewerDefined \in BOOLEAN
  /\ rendered = Snapshot
  /\ inflight = {}
  /\ nextId = 0
  /\ timers = 0
  /\ scripts = <<>>
  /\ lastDownload = NoDownload
  /\ previewHist = [closed |-> None, opened |-> None]

\* a UI event runs a handler of the current rendering: no render, no effect
Event == UNCHANGED <<rendered, scripts, viewerDefined>>

network == <<inflight, nextId, timers>>

\* lines 55-63 and the fetch of lines 66-70, run on the rendering's closure
SendMessage ==
  IF Rejects(rendered)
    THEN UNCHANGED <<chatState, network>>
    ELSE /\ nextId < MaxRequests
         /\ messages' = AppendMsg(messages, UserMsg(Trim(rendered.prompt)))
         /\ prompt' = <<>>
         /\ loading' = TRUE
         /\ typing' = TRUE
         /\ nextId' = nextId + 1
         /\ inflight' = inflight \cup {Request(nextId + 1, Trim(rendered.prompt))}
         /\ UNCHANGED timers

\* line 286: a click on the Generate button
ClickGenerate ==
  /\ Event
  /\ IF InputDisabled(rendered)
       THEN UNCHANGED <<chatState, network>>
       ELSE SendMessage
  /\ UNCHANGED <<previewState, lastDownload, previewHist>>

\* lines 101-106: a key pressed in the textarea
HandleKeyDown ==
  /\ ~InputDisabled(rendered)
  /\ Event
  /\ \E key \in Keys, shiftKey \in BOOLEAN :
       IF key = "Enter" /\ ~shiftKey
         THEN SendMessage
         ELSE UNCHANGED <<chatState, network>>
  /\ UNCHANGED <<previewState, lastDownload, previewHist>>

\* line 277: onChange of the textarea
ChangePrompt ==
  /\ ~InputDisabled(rendered)
  /\ Event
  /\ \E v \in Prompts : prompt' = v
  /\ UNCHANGED <<messages, loading, typing, network, previewState, lastDownload,
                 previewHist>>

\* lines 315-341: the quick-prompt buttons
QuickPrompt ==
  /\ Event
  /\ \E q \in QuickPrompts : prompt' = q
  /\ UNCHANGED <<messages, loading, typing, network, previewState, lastDownload,
                 previewHist>>

\* lines 88-98 with a bug: the finally block runs but no message is appended
FinishWithoutReply(r, msg) ==
  /\ inflight' = inflight \ {r}
  /\ loading' = FALSE
  /\ timers' = timers + 1
  /\ UNCHANGED <<prompt, messages, typing, nextId, previewState, rendered,
                 scripts, viewerDefined, lastDownload, previewHist>>

\* lines 88-98: sendMessage appends msg for request r and runs its finally block
Finish(r, msg) ==
  /\ inflight' = inflight \ {r}
  /\ messages' = AppendMsg(messages, msg)
  /\ loading' = FALSE
  /\ timers' = timers + 1
  /\ UNCHANGED <<prompt, typing, nextId, previewState, rendered,
                 scripts, viewerDefined, lastDownload, previewHist>>

\* line 66 throws: the fetch promise rejects and the catch block runs
FetchRejects ==
  \E r \in inflight, err \in NetworkErrors :
    /\ r.res = NoResponse
    /\ Finish(r, ErrorMsg(err.message))

\* line 66 returns: the fetch promise resolves with a response
FetchResponds(responses) ==
  /\ \E r \in inflight, res \in responses :
       /\ r.res = NoResponse
       /\ inflight' = (inflight \ {r}) \cup {[r EXCEPT !.res = res]}
  /\ UNCHANGED <<chatState, nextId, timers, previewState, rendered,
                 scripts, viewerDefined, lastDownload, previewHist>>

\* lines 73 and 78: the body read settles and the rest of sendMessage runs
BodyRead ==
  \E r \in inflight :
    /\ r.res # NoResponse
    /\ Finish(r, Settle(r.res))

\* line 97: a timeout callback runs
TimerFire ==
  /\ timers > 0
  /\ timers' = timers - 1
  /\ typing' = FALSE
  /\ UNCHANGED <<prompt, messages, loading, inflight, nextId,
                 previewState, rendered, scripts, viewerDefined,
                 lastDownload, previewHist>>

\* line 296 with a bug: Clear also abandons the pending requests
ClickClearAborts ==
  /\ Event
  /\ messages' = <<>>
  /\ inflight' = {}
  /\ loading' = FALSE
  /\ UNCHANGED <<prompt, typing, nextId, timers, previewState, lastDownload,
                 previewHist>>

\* line 296: the Clear button
ClickClear ==
  /\ Event
  /\ messages' = <<>>
  /\ UNCHANGED <<prompt, loading, typing, network, previewState, lastDownload,
                 previewHist>>

\* openPreview with a bug: keeps a target that is already set
OpenPreviewKeepsTarget(url) ==
  /\ previewUrl' = IF Truthy(previewUrl) THEN previewUrl ELSE url
  /\ showPreview' = TRUE

\* lines 108-111: openPreview(url)
openPreview(url) ==
  /\ previewUrl' = url
  /\ showPreview' = TRUE

\* line 227: Preview 3D on a message whose stlUrl is url
PreviewTrigger(url) ==
  /\ Event
  /\ openPreview(url)
  /\ previewHist' = [previewHist EXCEPT !.opened = url]
  /\ UNCHANGED <<chatState, network, lastDownload>>

\* lines 224-231: the Preview 3D buttons of the rendering
OpenPreview == \E url \in rendered.stlUrls : PreviewTrigger(url)

\* line 234: Download STL on a message whose stlUrl is url
DownloadTrigger(url) ==
  /\ Event
  /\ lastDownload' = DownloadFile(url)
  /\ UNCHANGED <<chatState, network, previewState, previewHist>>

\* lines 224-238: the Download STL buttons of the rendering
DownloadMessage == \E url \in rendered.stlUrls : DownloadTrigger(url)

\* line 380: Download STL in the preview modal
DownloadPreview ==
  /\ ModalVisible(rendered)
  /\ Event
  /\ lastDownload' = DownloadFile(rendered.previewUrl)
  /\ UNCHANGED <<chatState, network, previewState, previewHist>>

\* a close handler that also discards the target
ClosePreviewDiscards ==
  /\ showPreview' = FALSE
  /\ previewUrl' = Null
  /\ previewHist' = [closed |-> previewUrl, opened |-> None]

\* lines 361 and 387: setShowPreview(false)
ClosePreview ==
  /\ showPreview' = FALSE
  /\ previewUrl' = previewUrl
  /\ previewHist' = [closed |-> previewUrl, opened |-> None]

\* line 387: the Close button
ClickClose ==
  /\ ModalVisible(rendered)
  /\ Event
  /\ ClosePreview
  /\ UNCHANGED <<chatState, network, lastDownload>>

\* line 365: whether a click on target bubbles up to the backdrop's onClick
ReachesBackdrop(target) == target # "dialog"

\* lines 361, 365: a click on the backdrop or inside the dialog
ClickOn(target) ==
  /\ ModalVisible(rendered)
  /\ Event
  /\ IF ReachesBackdrop(target)
       THEN ClosePreview
       ELSE UNCHANGED <<previewState, previewHist>>
  /\ UNCHANGED <<chatState, network, lastDownload>>

ClickModal == \E target \in {"backdrop", "dialog"} : ClickOn(target)

\* lines 29-41: the effect of a commit whose showPreview differs from the last one
LoadViewer(prev) ==
  IF ~showPreview \/ showPreview = prev.showPreview THEN UNCHANGED scripts
  ELSE IF viewerDefined THEN UNCHANGED scripts
  ELSE /\ Len(scripts) < MaxScripts
       /\ scripts' = Append(scripts, "pending")

\* React re-renders with the current state and runs the effects
Render ==
  /\ Snapshot # rendered
  /\ rendered' = Snapshot
  /\ LoadViewer(rendered)
  /\ UNCHANGED <<chatState, previewState, network, viewerDefined, lastDownload,
                 previewHist>>

\* the model-viewer script finishes loading and registers the element
ScriptLoaded ==
  /\ \E i \in 1..Len(scripts) :
       /\ scripts[i] = "pending"
       /\ scripts' = [scripts EXCEPT ![i] = "loaded"]
  /\ viewerDefined' = TRUE
  /\ UNCHANGED <<chatState, previewState, network, rendered,
                 lastDownload, previewHist>>

\* the model-viewer script fails to load
ScriptFailed ==
  /\ \E i \in 1..Len(scripts) :
       /\ scripts[i] = "pending"
       /\ scripts' = [scripts EXCEPT ![i] = "failed"]
  /\ UNCHANGED <<chatState, previewState, network, rendered,
                 viewerDefined, lastDownload, previewHist>>

\* the chat and the preview surface, with the viewer element already registered
NextChat ==
  \/ ClickGenerate
  \/ HandleKeyDown
  \/ ChangePrompt
  \/ QuickPrompt
  \/ FetchRejects
  \/ FetchResponds(ChatResponses)
  \/ BodyRead
  \/ TimerFire
  \/ ClickClear
  \/ OpenPreview
  \/ DownloadMessage
  \/ DownloadPreview
  \/ ClickClose
  \/ ClickModal
  \/ Render

\* the preview surface and the viewer loader, with a server that always replies
NextPreview ==
  \/ QuickPrompt
  \/ ClickGenerate
  \/ FetchResponds(OkResponses)
  \/ BodyRead
  \/ OpenPreview
  \/ DownloadMessage
  \/ DownloadPreview
  \/ ClickClose
  \/ ClickModal
  \/ Render
  \/ ScriptLoaded
  \/ ScriptFailed

Next ==
  \/ ClickGenerate
  \/ HandleKeyDown
  \/ ChangePrompt
  \/ QuickPrompt
  \/ FetchRejects
  \/ FetchResponds(Responses)
  \/ BodyRead
  \/ TimerFire
  \/ ClickClear
  \/ OpenPreview
  \/ DownloadMessage
  \/ DownloadPreview
  \/ ClickClose
  \/ ClickModal
  \/ Render
  \/ ScriptLoaded
  \/ ScriptFailed

Spec == Init /\ [][Next]_vars

InitChat == Init /\ viewerDefined

SpecChat == InitChat /\ [][NextChat]_vars

SpecPreview == Init /\ [][NextPreview]_vars

-----------------------------------------------------------------------------
(* Properties *)

Ids(S) == { r.id : r \in S }

\* the requests a step dispatches, and the requests whose sendMessage call it finishes
Dispatched == { r \in inflight' : r.id \notin Ids(inflight) }
Finished == { r \in inflight : r.id \notin Ids(inflight') }

Last(m) == m[Len(m)]

\* m2 is m1 with exactly one message added at the end
ExtendsByOne(m1, m2) == Len(m2) = Len(m1) + 1 /\ SubSeq(m2, 1, Len(m1)) = m1

NoAttachment(msg) == Field(msg, "image") = Undefined /\ Field(msg, "stlUrl") = Undefined

(* C1: every accepted submission appends exactly one user message carrying the   *)
(* trimmed text when it is dispatched, and exactly one bot message when its      *)
(* request resolves, whatever happens in between; the list grows in no other     *)
(* step, so no submission ends with zero or with several bot messages.           *)
C1_OneUserOneBot ==
  [][ /\ Cardinality(Dispatched) + Cardinality(Finished) <= 1
      /\ \A r \in Dispatched :
           /\ r.body.message = Trim(rendered.prompt)
           /\ r.body.message # <<>>
           /\ messages' = Append(messages, [role |-> "user", text |-> r.body.message])
      /\ \A r \in Finished :
           /\ ExtendsByOne(messages, messages')
           /\ Last(messages').role = "bot"
      /\ (messages' # messages /\ messages' # <<>>)
           => Cardinality(Dispatched) + Cardinality(Finished) = 1 ]_vars

\* C1 witness: a submission was dispatched and resolved: its user message is followed
\* by its bot message
C1_Witness ==
  /\ nextId = 1
  /\ inflight = {}
  /\ Len(messages) = 2
  /\ messages[1].role = "user"
  /\ messages[2].role = "bot"

(* C2: a submission attempt made while a request is in flight, or with pending   *)
(* input that is blank after trimming, dispatches no request and appends no      *)
(* message.                                                                      *)
C2_RejectedAttemptChangesNothing ==
  [][ (inflight # {} \/ Trim(prompt) = <<>>)
        => /\ Dispatched = {}
           /\ nextId' = nextId
           /\ Finished = {} => ~ExtendsByOne(messages, messages') ]_vars

(* C3: at most one POST /chat request is outstanding in every reachable state.  *)
C3_SingleFlight == Cardinality(inflight) <= 1

(* C5: the in-flight flag is true exactly when a dispatched request has not yet  *)
(* resolved.                                                                     *)
C5_LoadingIffInFlight == loading <=> (inflight # {})

(* C6: the typing indicator is on for as long as the in-flight flag of a         *)
(* dispatched request is set, also when the request was accepted before the      *)
(* grace timer of the previous one fired.                                        *)
C6_TypingWhileInFlight == (loading /\ inflight # {}) => typing

(* C9: Clear empties the message list whatever it held and changes nothing      *)
(* else: the in-flight flag, the typing indicator, the pending input, the        *)
(* preview state and the pending requests stay as they were, and the reply of a  *)
(* request that resolves afterwards is appended to the list as Clear left it.    *)
C9_ClearOnlyEmptiesMessages ==
  [][ /\ ClickClear =>
           /\ messages' = <<>>
           /\ UNCHANGED <<prompt, loading, typing, previewUrl, showPreview,
                          inflight, nextId, timers>>
      /\ (messages = <<>> /\ Finished # {}) =>
           /\ Len(messages') = 1
           /\ messages'[1].role = "bot" ]_vars

\* C9 witness: the list holds only the bot reply of the one submission made: its user
\* message was cleared while the request was pending
C9_Witness ==
  /\ nextId = 1
  /\ inflight = {}
  /\ Len(messages) = 1
  /\ messages[1].role = "bot"

(* C10: the bot message appended for a response with a non-success status s and  *)
(* body b has a text containing s and b, and neither image nor stlUrl; the bot   *)
(* message appended for a rejected fetch or a failed body read or parse is an    *)
(* error text with neither field.                                                *)
C10_FailureMessage ==
  [][ \A r \in Finished :
        LET m == Last(messages') IN
        /\ (r.res = NoResponse \/ Has(r.res, "readError") \/ Has(r.res, "parseError"))
             => /\ Head(m.text) = "Error: "
                /\ Len(m.text) > 1
                /\ NoAttachment(m)
        /\ Has(r.res, "readError") => Contains(m.text, r.res.readError)
        /\ Has(r.res, "parseError") => Contains(m.text, r.res.parseError)
        /\ (Has(r.res, "text") /\ ~r.res.ok)
             => /\ Contains(m.text, Dec(r.res.status))
                /\ Contains(m.text, r.res.text)
                /\ Head(m.text) = "Error: "
                /\ NoAttachment(m) ]_vars

\* C10 witness: the reply to a response with status 500 and body "boom" is in the list
C10_Witness ==
  \E i \in 1..Len(messages) :
    /\ messages[i].role = "bot"
    /\ messages[i].text = <<"Error: ", "Server error: ", "5", "0", "0", " - ", "boom">>
    /\ DOMAIN messages[i] = {"role", "text"}

(* C4: across any sequence of preview opens and closes, at most one script      *)
(* element for the model-viewer is ever appended.                                *)
C4_ViewerLoadedOnce == Len(scripts) <= 1

(* C7, as claimed: after a close and until the next openPreview, the active      *)
(* preview URL is absent.                                                        *)
C7_CloseDiscardsTarget ==
  (previewHist.closed # None /\ previewHist.opened = None) => ~Truthy(previewUrl)

(* C7, amended: a close (Close button or backdrop click) hides the surface and   *)
(* keeps the active preview URL: until the next openPreview showPreview is       *)
(* false, no new rendering shows the modal, and previewUrl still holds the       *)
(* closed target; a click inside the dialog changes neither.                     *)
C7_CloseHidesKeepsTarget ==
  [][ /\ (previewHist' # previewHist /\ previewHist'.opened = None)
           => (~showPreview' /\ previewUrl' = previewUrl)
      /\ (previewHist'.closed # None /\ previewHist'.opened = None)
           => /\ ~showPreview'
              /\ previewUrl' = previewHist'.closed
              /\ rendered' # rendered => ~ModalVisible(rendered')
      /\ ClickOn("dialog") => UNCHANGED <<previewUrl, showPreview>> ]_vars

\* C7 witness: the surface showing U1 was closed and the screen re-rendered: the modal
\* is gone and the target is still U1
C7_Witness ==
  /\ previewHist = [closed |-> U1, opened |-> None]
  /\ ~showPreview
  /\ previewUrl = U1
  /\ rendered = Snapshot
  /\ ~View(rendered).modal

(* C8: every rendering made after openPreview(u) in which the surface is         *)
(* visible shows u as the viewer source (or the fallback link), as the           *)
(* 'Open raw' link and as the modal's download target; in particular after a     *)
(* close and a reopen with another reference the earlier one is not rendered.    *)
C8_RenderShowsOpenedTarget ==
  [][ (rendered' # rendered /\ ModalVisible(rendered'))
        => LET v == View(rendered') IN
           /\ previewHist'.opened # None
           /\ v.rawHref = previewHist'.opened
           /\ v.downloadTarget = previewHist'.opened
           /\ (v.viewerSrc = previewHist'.opened \/ v.fallbackHref = previewHist'.opened)
           /\ previewHist'.closed \notin {None, previewHist'.opened}
                => previewHist'.closed \notin
                     {v.rawHref, v.downloadTarget, v.viewerSrc, v.fallbackHref} ]_vars

\* C8 witness: the surface showing U1 was closed, reopened with U2, and is rendered
\* showing U2
C8_Witness ==
  /\ previewHist = [closed |-> U1, opened |-> U2]
  /\ View(rendered).modal
  /\ View(rendered).rawHref = U2
  /\ View(rendered).downloadTarget = U2

(* C11: the bot message appended for a successful reply { text, image?, stlUrl? } *)
(* carries the reply's text (the empty text when text is missing) and its image  *)
(* and stlUrl as they came; every new rendering has the triggers of each message *)
(* with a model file; the preview trigger of a message with stlUrl u makes u the *)
(* active target with the surface open; its download trigger saves from u under  *)
(* the name model.stl and changes neither the preview state nor the list.        *)
C11_ReplyCarriedAndTriggersWork ==
  [][ /\ \A r \in Finished :
           Has(r.res, "json")
             => LET d == r.res.json
                    m == Last(messages')
                IN /\ ExtendsByOne(messages, messages')
                   /\ m.role = "bot"
                   /\ m.text = (IF Has(d, "text") THEN d.text ELSE <<>>)
                   /\ Field(m, "image") = Field(d, "image")
                   /\ Field(m, "stlUrl") = Field(d, "stlUrl")
      /\ rendered' # rendered
           => \A i \in 1..Len(messages') :
                Truthy(Field(messages'[i], "stlUrl"))
                  => messages'[i].stlUrl \in rendered'.stlUrls
      /\ \A u \in rendered.stlUrls :
           /\ PreviewTrigger(u) => (previewUrl' = u /\ showPreview' /\ messages' = messages)
           /\ DownloadTrigger(u)
                => /\ lastDownload' = [href |-> u, download |-> "model.stl"]
                   /\ UNCHANGED <<previewUrl, showPreview, messages>> ]_vars

\* C11 witness: a reply without text, with an image and the model file U2, is in the
\* list with the empty text; its preview trigger opened U2 and its download trigger
\* saved U2 as model.stl while the surface stayed open
C11_Witness ==
  /\ \E i \in 1..Len(messages) :
       messages[i] = [role |-> "bot", text |-> <<>>, image |-> Img, stlUrl |-> U2]
  /\ previewHist.opened = U2
  /\ previewUrl = U2
  /\ showPreview
  /\ lastDownload = [href |-> U2, download |-> "model.stl"]

(* C12: every step other than a click on Clear leaves the message list as it is  *)
(* or adds exactly one message at its end, so the list before the step is a      *)
(* prefix of the list after it: no message is removed on its own, moved or       *)
(* rewritten; a rendering lays the messages out in list order.                   *)
C12_AppendOnly ==
  [][ /\ ClickClear \/ messages' = messages \/ ExtendsByOne(messages, messages')
      /\ ~ClickClear => /\ Len(messages') >= Len(messages)
                        /\ SubSeq(messages', 1, Len(messages)) = messages
      /\ rendered' # rendered
           => /\ Len(Bubbles(messages')) = Len(messages')
              /\ \A i \in 1..Len(messages') :
                   /\ Bubbles(messages')[i].key = i - 1
                   /\ Bubbles(messages')[i].role = messages'[i].role
                   /\ Bubbles(messages')[i].text = messages'[i].text ]_vars

\* C12 witness: two submissions were made and answered; their four messages are in
\* the list in the order they were appended
C12_Witness ==
  /\ nextId = 2
  /\ inflight = {}
  /\ Len(messages) = 4
  /\ messages[1].role = "user"
  /\ messages[2].role = "bot"
  /\ messages[3].role = "user"
  /\ messages[4].role = "bot"
  /\ rendered = Snapshot

====
